---- MODULE Spec2Model ----
(***************************************************************************)
(* Model of examples/classification/bilstm_imdb_scratch.ipynb: the data    *)
(* preparation pipeline (tokenizer -> lookup -> pad), train_one_epoch,     *)
(* evaluate and the epoch loop that checkpoints the best model.            *)
(*                                                                         *)
(* Tensors are abstracted: the model parameters are one abstract value,    *)
(* a loss is a float (finite, +inf or NaN) and the framework's forward     *)
(* pass is a deterministic function of the parameters and the batch in     *)
(* inference mode, and depends on a random dropout mask in training mode.  *)
(***************************************************************************)
EXTENDS Integers, Sequences, FiniteSets, TLC

(***************************************************************************)
(* Bounds of the model.                                                    *)
(***************************************************************************)
\* largest number of batches of the train and of the validation partition
MaxBatches == 2
\* parameter values are 0..MaxParam
MaxParam == 4
\* documents have up to max_length + MaxExtra tokens
MaxExtra == 2
\* the training set has up to 2 * batch_size + MaxRest examples
MaxRest == 3
\* the encoder has up to MaxLayers layers
MaxLayers == 3
\* hidden_dim, output_dim and the number of sequences of a batch are 1..MaxDim
MaxDim == 2

(***************************************************************************)
(* Program constants.                                                      *)
(***************************************************************************)
max_length == 256
batch_size == 64
num_epochs == 5

VARIABLES
    \* ---- epoch loop (cell 16) and the objects it works on
    pc,              \* position of the script
    epoch,           \* loop variable of `for epoch in range(num_epochs)`
    params,          \* the model parameters (owned by model, updated by optimizer)
    optSteps,        \* the optimizer's state: number of updates applied
    training,        \* model.training, set by model.set_train
    best_valid_loss,
    valid_loss,
    ckpt,            \* the file ./sentiment_analysis.ckpt
    nTrain,          \* number of batches of imdb_train
    nValid,          \* number of batches of imdb_valid
    \* ---- locals of train_one_epoch / train_step / evaluate
    it,              \* position of create_tuple_iterator
    loss,            \* loss of the current training step
    grads,           \* gradients of the current training step
    loss_total,      \* train_one_epoch: loss_total; evaluate: epoch_loss
    acc_total,       \* evaluate: epoch_acc
    step_total,
    \* ---- history (what happened, for stating the properties)
    lossHist,        \* validation loss returned by evaluate, per epoch
    paramsHist,      \* parameters right after training, per epoch
    bestBefore,      \* best_valid_loss as it stood when the epoch began, per epoch
    writes,          \* epochs in which ms.save_checkpoint was called
    nGrads,          \* gradient computations in the current train_one_epoch
    fed,             \* batches handed to train_step in the current train_one_epoch
    failedIn,        \* the operation that raised, "" while none has
    \* ---- data preparation (cells 3-6)
    part,            \* the partition the document belongs to
    doc,             \* the document as loaded
    stage,           \* how many operations of the map pipeline were applied
    text,            \* the 'text' column of the document
    \* ---- batching and splitting (cells 2, 7, 8)
    rowsN,           \* number of examples of the loaded training set
    dataState,       \* "batched", then "split" or "failed"
    splitSizes,      \* number of batches of the two partitions
    batchOrder,      \* the order split has shuffled the batches into
    trainPass,       \* the batches of the latest pass over imdb_train
    validPass,       \* the batches of the latest pass over imdb_valid
    \* ---- the network (cells 9-11)
    n_layers,        \* RNN.__init__ arguments
    bidirectional,
    hidden_dim,
    output_dim,
    inputs,          \* shape of the batch given to construct
    netPc,           \* position inside construct
    embedded,        \* shape of self.embedding(inputs)
    hidden,          \* the hidden states self.rnn returns, along the first axis
    head,            \* the states concatenated for the classifier
    headShape,       \* shape of the concatenation
    output           \* shape of the logits

vars == <<pc, epoch, params, optSteps, training, best_valid_loss, valid_loss,
          ckpt, nTrain, nValid, it, loss, grads, loss_total, acc_total,
          step_total, lossHist, paramsHist, bestBefore, writes, nGrads, fed,
          failedIn, part, doc, stage, text, rowsN, dataState, splitSizes,
          batchOrder, trainPass, validPass, n_layers, bidirectional, hidden_dim, output_dim,
          inputs, netPc, embedded, hidden, head, headShape, output>>

loopVars == <<pc, epoch, params, optSteps, training, best_valid_loss, valid_loss,
              ckpt, nTrain, nValid, it, loss, grads, loss_total, acc_total,
              step_total, lossHist, paramsHist, bestBefore, writes, nGrads,
              fed, failedIn>>

prepVars == <<part, doc, stage, text>>

dataVars == <<rowsN, dataState, splitSizes, batchOrder, trainPass, validPass>>

netVars == <<n_layers, bidirectional, hidden_dim, output_dim, inputs, netPc,
            embedded, hidden, head, headShape, output>>

restVars == <<dataVars, netVars>>

(***************************************************************************)
(* Floats: a finite value is the rational num/den in lowest terms.         *)
(***************************************************************************)
RECURSIVE GCD(_, _)
GCD(a, b) == IF b = 0 THEN a ELSE GCD(b, a % b)

Fin(n, d) == LET g == GCD(n, d)
             IN  [kind |-> "fin", num |-> n \div (IF g = 0 THEN 1 ELSE g),
                                  den |-> d \div (IF g = 0 THEN 1 ELSE g)]
Inf == [kind |-> "inf", num |-> 0, den |-> 1]
NaN == [kind |-> "nan", num |-> 0, den |-> 1]
Zero == Fin(0, 1)

\* x + y
FAdd(x, y) == IF x.kind = "nan" \/ y.kind = "nan" THEN NaN
              ELSE IF x.kind = "inf" \/ y.kind = "inf" THEN Inf
              ELSE Fin(x.num * y.den + y.num * x.den, x.den * y.den)

\* x / n for an integer n > 0
FDiv(x, n) == IF x.kind = "fin" THEN Fin(x.num, x.den * n) ELSE x

\* x < y as IEEE-754 compares: false whenever a NaN is involved
FLess(x, y) == IF x.kind = "nan" \/ y.kind = "nan" THEN FALSE
               ELSE IF x.kind = "inf" THEN FALSE
               ELSE IF y.kind = "inf" THEN TRUE
               ELSE x.num * y.den < y.num * x.den

(***************************************************************************)
(* The framework collaborators, as far as the script observes them.        *)
(***************************************************************************)
ParamVals == 0 .. MaxParam
Masks == {0, 1}

\* loss_fn(model(data), label) for parameters p and batch b; m is the dropout
\* mask drawn for this forward pass (0 when dropout is off).  Parameters 1 and
\* 2 give equal losses, 3 gives NaN and 4 gives +inf.
BatchLoss(p, b, m) ==
    IF p = 3 THEN NaN
    ELSE IF p = 4 THEN Inf
    ELSE Fin((IF p = 0 THEN 2 ELSE IF p \in {1, 2} THEN 1 ELSE p - 5) + (b % 2) + m, 1)

\* accuracy_fn(model(data), label)
BatchAcc(p, b) == Fin((p + b) % 2, 1)

\* model(data) followed by the criterion: dropout acts only in training mode
ForwardLoss(p, b, tr, m) == BatchLoss(p, b, IF tr THEN m ELSE 0)

\* optimizer(grads): the update rule applied to the parameters
OptimizerStep(p, g) == (p + g) % (MaxParam + 1)

\* the batches of imdb_train and imdb_valid, in iteration order
TrainBatch(i) == i
ValidBatch(i) == MaxBatches + i

(***************************************************************************)
(* Pieces of the script.                                                   *)
(***************************************************************************)
\* (mutation) one epoch too many
OneMoreEpoch(e) == e <= num_epochs

\* for epoch in range(num_epochs)
MoreEpochs(e) == e < num_epochs

\* (mutation) train_one_epoch without model.set_train()
ModeKept(tr) == tr

\* model.set_train() in train_one_epoch
TrainMode(tr) == TRUE

\* (mutation) evaluate without model.set_train(False)
ModeLeftAsIs(tr) == tr

\* model.set_train(False) in evaluate
EvalMode(tr) == FALSE

\* (mutation) the iterator skips a batch
AdvanceTwo(i) == i + 2

\* the iterator hands out the next batch
Advance(i) == i + 1

\* (mutation) evaluate applies an optimizer update
EvalUpdates(p) == OptimizerStep(p, 1)

\* evaluate runs the forward pass only: no grad_fn, no optimizer
EvalParams(p) == p

\* (mutation) the accumulated loss returned without the division
ReturnedSum(epoch_loss, total) == epoch_loss

\* return epoch_loss / total
ReturnedLoss(epoch_loss, total) == FDiv(epoch_loss, total)

\* (mutation) the comparison written with <= instead of <
ImprovedOrEqual(v, best) == FLess(v, best) \/ v = best

\* if valid_loss < best_valid_loss
Improved(v, best) == FLess(v, best)

\* (mutation) the assignment to best_valid_loss left out
StaleBest(v, best) == best

\* best_valid_loss = valid_loss
NewBest(v, best) == v

\* (mutation) the exception is caught and the loop goes on
Swallow(at) == "for"

\* an exception nobody catches ends the script
Raise(at) == "failed"

NoFile == [state |-> "absent", params |-> 0]
Saved(p) == [state |-> "ok", params |-> p]
Broken == [state |-> "corrupt", params |-> 0]

(***************************************************************************)
(* The state before cell 16 runs: the model is built and initialised, the  *)
(* partitions are fixed, no checkpoint has been written.                   *)
(***************************************************************************)
\* (mutation) best_valid_loss = 0
InitialBestZero == Zero

\* best_valid_loss = float('inf')
InitialBest == Inf

\* (mutation) the division yields a value whatever the divisor
NeverFails(total) == FALSE

\* epoch_loss / total raises ZeroDivisionError: epoch_loss is the int 0 when
\* no batch was iterated
DivisionFails(total) == total = 0

Fresh ==
    /\ epoch = 0
    /\ params \in ParamVals
    /\ optSteps = 0
    /\ training \in BOOLEAN
    /\ best_valid_loss = InitialBest
    /\ valid_loss = Zero
    /\ ckpt = NoFile
    /\ nTrain \in 0 .. MaxBatches
    /\ nValid \in 0 .. MaxBatches
    /\ it = 0
    /\ loss = Zero
    /\ grads = 0
    /\ loss_total = Zero
    /\ acc_total = Zero
    /\ step_total = 0
    /\ lossHist = <<>>
    /\ bestBefore = <<>>
    /\ writes = <<>>
    /\ nGrads = 0
    /\ fed = <<>>
    /\ failedIn = ""

LoopInit ==
    /\ Fresh
    /\ pc = "for"
    /\ paramsHist = <<>>

\* an exception leaves the function: its locals are gone, the script stops
Failure(at) ==
    /\ pc' = Raise(at)
    /\ failedIn' = at
    /\ it' = 0
    /\ loss' = Zero
    /\ grads' = 0
    /\ loss_total' = Zero
    /\ acc_total' = Zero
    /\ step_total' = 0

\* the loop takes the next epoch and calls train_one_epoch, which switches
\* training mode on and resets its counters
EpochBegin ==
    /\ pc = "for"
    /\ MoreEpochs(epoch)
    /\ training' = TrainMode(training)
    /\ it' = 0
    /\ loss_total' = Zero
    /\ step_total' = 0
    /\ nGrads' = 0
    /\ fed' = <<>>
    /\ bestBefore' = Append(bestBefore, best_valid_loss)
    /\ pc' = "train"
    /\ UNCHANGED <<epoch, params, optSteps, best_valid_loss, valid_loss, ckpt,
                   nTrain, nValid, loss, grads, acc_total, lossHist, paramsHist,
                   writes, failedIn>>
    /\ UNCHANGED <<prepVars, restVars>>

\* range(num_epochs) is exhausted
LoopExit ==
    /\ pc = "for"
    /\ ~MoreEpochs(epoch)
    /\ pc' = "done"
    /\ UNCHANGED <<bestBefore, epoch, params, optSteps, training, best_valid_loss, valid_loss,
                   ckpt, nTrain, nValid, it, loss, grads, loss_total, acc_total,
                   step_total, lossHist, paramsHist, writes, nGrads, fed, failedIn>>
    /\ UNCHANGED <<prepVars, restVars>>

\* train_step, first half: loss, grads = grad_fn(data, label)
TrainGrad ==
    /\ pc = "train"
    /\ it < nTrain
    /\ \E m \in Masks, g \in ParamVals :
          /\ loss' = ForwardLoss(params, TrainBatch(it + 1), training, m)
          /\ grads' = g
    /\ nGrads' = nGrads + 1
    /\ fed' = Append(fed, TrainBatch(it + 1))
    /\ pc' = "opt"
    /\ UNCHANGED <<bestBefore, epoch, params, optSteps, training, best_valid_loss, valid_loss,
                   ckpt, nTrain, nValid, it, loss_total, acc_total, step_total,
                   lossHist, paramsHist, writes, failedIn>>
    /\ UNCHANGED <<prepVars, restVars>>

\* train_step, second half: optimizer(grads); then the bookkeeping of the loop
TrainOpt ==
    /\ pc = "opt"
    /\ params' = OptimizerStep(params, grads)
    /\ optSteps' = optSteps + 1
    /\ loss_total' = FAdd(loss_total, loss)
    /\ step_total' = step_total + 1
    /\ it' = Advance(it)
    /\ loss' = Zero
    /\ grads' = 0
    /\ pc' = "train"
    /\ UNCHANGED <<bestBefore, epoch, training, best_valid_loss, valid_loss, ckpt, nTrain,
                   nValid, acc_total, lossHist, paramsHist, writes, nGrads, fed,
                   failedIn>>
    /\ UNCHANGED <<prepVars, restVars>>

\* grad_fn or the optimizer raises
TrainFail ==
    /\ \/ pc = "train" /\ it < nTrain
       \/ pc = "opt"
    /\ Failure("train")
    /\ UNCHANGED <<bestBefore, epoch, params, optSteps, training, best_valid_loss, valid_loss,
                   ckpt, nTrain, nValid, lossHist, paramsHist, writes, nGrads, fed>>
    /\ UNCHANGED <<prepVars, restVars>>

\* the iterator of train_one_epoch is exhausted: the function returns
TrainReturn ==
    /\ pc = "train"
    /\ ~(it < nTrain)
    /\ paramsHist' = Append(paramsHist, params)
    /\ it' = 0
    /\ loss_total' = Zero
    /\ step_total' = 0
    /\ pc' = "call_eval"
    /\ UNCHANGED <<bestBefore, epoch, params, optSteps, training, best_valid_loss,
                   valid_loss, ckpt, nTrain, nValid, loss, grads, acc_total,
                   lossHist, writes, nGrads, fed, failedIn>>
    /\ UNCHANGED <<prepVars, restVars>>

\* evaluate is called: it resets its counters and switches training mode off
EvaluateBegin ==
    /\ pc = "call_eval"
    /\ loss_total' = Zero
    /\ acc_total' = Zero
    /\ step_total' = 0
    /\ training' = EvalMode(training)
    /\ it' = 0
    /\ pc' = "eval"
    /\ UNCHANGED <<bestBefore, epoch, params, optSteps, best_valid_loss,
                   valid_loss, ckpt, nTrain, nValid, loss, grads, lossHist,
                   paramsHist, writes, nGrads, fed, failedIn>>
    /\ UNCHANGED <<prepVars, restVars>>

\* one iteration of the loop of evaluate
EvalStep ==
    /\ pc = "eval"
    /\ it < nValid
    /\ \E m \in Masks :
          loss_total' = FAdd(loss_total,
                             ForwardLoss(params, ValidBatch(it + 1), training, m))
    /\ acc_total' = FAdd(acc_total, BatchAcc(params, ValidBatch(it + 1)))
    /\ step_total' = step_total + 1
    /\ it' = Advance(it)
    /\ params' = EvalParams(params)
    /\ UNCHANGED <<bestBefore, pc, epoch, optSteps, training, best_valid_loss, valid_loss,
                   ckpt, nTrain, nValid, loss, grads, lossHist, paramsHist, writes,
                   nGrads, fed, failedIn>>
    /\ UNCHANGED <<prepVars, restVars>>

\* the forward pass, the criterion or accuracy_fn raises
EvalFail ==
    /\ pc = "eval"
    /\ it < nValid
    /\ Failure("evaluate")
    /\ UNCHANGED <<bestBefore, epoch, params, optSteps, training, best_valid_loss, valid_loss,
                   ckpt, nTrain, nValid, lossHist, paramsHist, writes, nGrads, fed>>
    /\ UNCHANGED <<prepVars, restVars>>

\* return epoch_loss / total, with total = get_dataset_size() > 0
EvalReturn ==
    /\ pc = "eval"
    /\ ~(it < nValid)
    /\ ~DivisionFails(nValid)
    /\ valid_loss' = ReturnedLoss(loss_total, nValid)
    /\ lossHist' = Append(lossHist, valid_loss')
    /\ it' = 0
    /\ loss_total' = Zero
    /\ acc_total' = Zero
    /\ step_total' = 0
    /\ pc' = "decide"
    /\ UNCHANGED <<bestBefore, epoch, params, optSteps, training, best_valid_loss, ckpt,
                   nTrain, nValid, loss, grads, paramsHist, writes, nGrads, fed,
                   failedIn>>
    /\ UNCHANGED <<prepVars, restVars>>

\* return epoch_loss / total, with total = 0: the int 0 / 0 raises
\* ZeroDivisionError
EvalDivideByZero ==
    /\ pc = "eval"
    /\ ~(it < nValid)
    /\ DivisionFails(nValid)
    /\ Failure("divide")
    /\ UNCHANGED <<bestBefore, epoch, params, optSteps, training, best_valid_loss, valid_loss,
                   ckpt, nTrain, nValid, lossHist, paramsHist, writes, nGrads, fed>>
    /\ UNCHANGED <<prepVars, restVars>>

\* if valid_loss < best_valid_loss: best_valid_loss = valid_loss
Improve ==
    /\ pc = "decide"
    /\ Improved(valid_loss, best_valid_loss)
    /\ best_valid_loss' = NewBest(valid_loss, best_valid_loss)
    /\ pc' = "save"
    /\ UNCHANGED <<bestBefore, epoch, params, optSteps, training, valid_loss, ckpt, nTrain,
                   nValid, it, loss, grads, loss_total, acc_total, step_total,
                   lossHist, paramsHist, writes, nGrads, fed, failedIn>>
    /\ UNCHANGED <<prepVars, restVars>>

\* the condition is false: the body of the if is skipped, the epoch ends
NoImprove ==
    /\ pc = "decide"
    /\ ~Improved(valid_loss, best_valid_loss)
    /\ epoch' = epoch + 1
    /\ pc' = "for"
    /\ UNCHANGED <<bestBefore, params, optSteps, training, best_valid_loss, valid_loss, ckpt,
                   nTrain, nValid, it, loss, grads, loss_total, acc_total,
                   step_total, lossHist, paramsHist, writes, nGrads, fed, failedIn>>
    /\ UNCHANGED <<prepVars, restVars>>

\* ms.save_checkpoint(model, './sentiment_analysis.ckpt') succeeds
Save ==
    /\ pc = "save"
    /\ ckpt' = Saved(params)
    /\ writes' = Append(writes, epoch)
    /\ epoch' = epoch + 1
    /\ pc' = "for"
    /\ UNCHANGED <<bestBefore, params, optSteps, training, best_valid_loss, valid_loss,
                   nTrain, nValid, it, loss, grads, loss_total, acc_total,
                   step_total, lossHist, paramsHist, nGrads, fed, failedIn>>
    /\ UNCHANGED <<prepVars, restVars>>

\* ms.save_checkpoint raises (I/O failure): the file is as before or broken
SaveFail ==
    /\ pc = "save"
    /\ ckpt' \in {ckpt, Broken}
    /\ writes' = Append(writes, epoch)
    /\ Failure("save")
    /\ UNCHANGED <<bestBefore, epoch, params, optSteps, training, best_valid_loss, valid_loss,
                   nTrain, nValid, lossHist, paramsHist, nGrads, fed>>
    /\ UNCHANGED <<prepVars, restVars>>

PrepIdle ==
    /\ part = "train"
    /\ doc = <<>>
    /\ stage = 0
    /\ text = <<>>

DataIdle ==
    /\ rowsN = 0
    /\ dataState = "batched"
    /\ splitSizes = <<0, 0>>
    /\ batchOrder = <<>>
    /\ trainPass = <<>>
    /\ validPass = <<>>

NetIdle ==
    /\ n_layers = 2
    /\ bidirectional = TRUE
    /\ hidden_dim = 1
    /\ output_dim = 2
    /\ inputs = <<>>
    /\ netPc = "built"
    /\ embedded = <<>>
    /\ hidden = <<>>
    /\ head = <<>>
    /\ headShape = <<>>
    /\ output = <<>>

RestIdle == DataIdle /\ NetIdle

Init == LoopInit /\ PrepIdle /\ RestIdle

Next ==
    \/ EpochBegin
    \/ LoopExit
    \/ TrainGrad
    \/ TrainOpt
    \/ TrainFail
    \/ TrainReturn
    \/ EvaluateBegin
    \/ EvalStep
    \/ EvalFail
    \/ EvalReturn
    \/ EvalDivideByZero
    \/ Improve
    \/ NoImprove
    \/ Save
    \/ SaveFail

Spec == Init /\ [][Next]_vars

(***************************************************************************)
(* Data preparation (cells 3-6): every document of imdb_train and of       *)
(* imdb_test goes through the operations of map, one after the other.      *)
(***************************************************************************)
\* the words of the documents; "zzz" is in no vocabulary
RawWords == <<"good", "Bad", "zzz">>

Lower(w) == IF w = "Bad" THEN "bad" ELSE w

\* Vocab.from_pretrained: token -> id, with the two reserved tokens
VocabTable == [t \in {"<pad>", "<unk>", "good", "bad"} |->
                 CASE t = "<pad>" -> 0
                   [] t = "<unk>" -> 1
                   [] t = "good" -> 2
                   [] t = "bad" -> 3]

\* vocab(token)
vocab(t) == VocabTable[t]

\* BasicTokenizer(lower_case=True), on a text given as its words
BasicTokenizer(words) == [i \in 1 .. Len(words) |-> Lower(words[i])]

\* Lookup(vocab, unk_token): the id of each token, of unk_token when unknown
Lookup(unk, tokens) ==
    [i \in 1 .. Len(tokens) |->
        IF tokens[i] \in DOMAIN VocabTable THEN vocab(tokens[i]) ELSE vocab(unk)]

\* PadTransform(max_length, pad_value): cut to max_length, fill with pad_value
PadTransform(n, pad_value, ids) ==
    [i \in 1 .. n |-> IF i <= Len(ids) THEN ids[i] ELSE pad_value]

\* tokenizer = BasicTokenizer(lower_case=True)
tokenizer(x) == BasicTokenizer(x)

\* lookup_op = Lookup(vocab, unk_token='<unk>')
lookup_op(x) == Lookup("<unk>", x)

\* (mutation) the padding built with the id of '<unk>'
pad_op_unk(x) == PadTransform(max_length, vocab("<unk>"), x)

\* pad_op = PadTransform(max_length, pad_value=vocab('<pad>'))
pad_op(x) == PadTransform(max_length, vocab("<pad>"), x)

\* (mutation) the test partition mapped without pad_op
MapOpsTestUnpadded(p) ==
    IF p = "test" THEN <<"tokenizer", "lookup_op">>
    ELSE <<"tokenizer", "lookup_op", "pad_op">>

\* the operations map applies to 'text': imdb_train (later split into the
\* train and validation partitions) and imdb_test get the same list
MapOps(p) ==
    IF p = "test" THEN <<"tokenizer", "lookup_op", "pad_op">>
    ELSE <<"tokenizer", "lookup_op", "pad_op">>

Parts == {"train", "valid", "test"}

\* documents of every length up to max_length + MaxExtra
Docs == {[i \in 1 .. n |-> RawWords[((i + k) % 3) + 1]] :
            n \in 0 .. (max_length + MaxExtra), k \in 0 .. 2}

LoopIdle ==
    /\ pc = "prep"
    /\ epoch = 0
    /\ params = 0
    /\ optSteps = 0
    /\ training = FALSE
    /\ best_valid_loss = Inf
    /\ valid_loss = Zero
    /\ ckpt = NoFile
    /\ nTrain = 0
    /\ nValid = 0
    /\ it = 0
    /\ loss = Zero
    /\ grads = 0
    /\ loss_total = Zero
    /\ acc_total = Zero
    /\ step_total = 0
    /\ lossHist = <<>>
    /\ paramsHist = <<>>
    /\ bestBefore = <<>>
    /\ writes = <<>>
    /\ nGrads = 0
    /\ fed = <<>>
    /\ failedIn = ""

PrepInit ==
    /\ LoopIdle
    /\ part \in Parts
    /\ doc \in Docs
    /\ stage = 0
    /\ text = doc
    /\ RestIdle

\* the next operation of the list is due
Due(op) == stage < Len(MapOps(part)) /\ MapOps(part)[stage + 1] = op

Tokenize ==
    /\ Due("tokenizer")
    /\ text' = tokenizer(text)
    /\ stage' = stage + 1
    /\ UNCHANGED <<part, doc>>
    /\ UNCHANGED <<loopVars, restVars>>

LookupIds ==
    /\ Due("lookup_op")
    /\ text' = lookup_op(text)
    /\ stage' = stage + 1
    /\ UNCHANGED <<part, doc>>
    /\ UNCHANGED <<loopVars, restVars>>

Pad ==
    /\ Due("pad_op")
    /\ text' = pad_op(text)
    /\ stage' = stage + 1
    /\ UNCHANGED <<part, doc>>
    /\ UNCHANGED <<loopVars, restVars>>

PrepNext ==
    \/ Tokenize
    \/ LookupIds
    \/ Pad

PrepSpec == PrepInit /\ [][PrepNext]_vars

(***************************************************************************)
(* Batching and splitting (cells 2, 7, 8).  The training set is loaded     *)
(* with shuffle=True, batched without drop_remainder and then split; each  *)
(* partition is its own pipeline over the loaded set, and every pass over  *)
(* a partition draws the order of the examples anew.                       *)
(***************************************************************************)
\* the label of example r
LabelOf(r) == r % 2

\* load_dataset(..., shuffle=True): the orders a pass may draw
RowOrders(n) ==
    {[i \in 1 .. n |-> i],
     [i \in 1 .. n |-> n + 1 - i],
     [i \in 1 .. n |-> (i % n) + 1]}

\* (mutation) batch(batch_size, drop_remainder=True)
DropRemainderOn == TRUE

\* batch(batch_size): drop_remainder is not passed and defaults to False
drop_remainder == FALSE

\* the number of batches batch(batch_size) forms of n examples
NumBatches(n) ==
    IF drop_remainder THEN n \div batch_size
    ELSE (n + batch_size - 1) \div batch_size

\* the examples of batch j of n examples: the next batch_size ones, or those
\* that are left
BatchRows(rows, j) ==
    LET last == IF j * batch_size <= Len(rows) THEN j * batch_size ELSE Len(rows)
    IN  SubSeq(rows, (j - 1) * batch_size + 1, last)

\* batch(batch_size) over the examples in the order given
Batched(rows) ==
    [j \in 1 .. NumBatches(Len(rows)) |->
        [data |-> BatchRows(rows, j),
         label |-> [i \in 1 .. Len(BatchRows(rows, j)) |->
                       LabelOf(BatchRows(rows, j)[i])]]]

\* split([0.7, 0.3]): the sizes of the two partitions of m batches
SplitSizes(m) == <<(7 * m + 5) \div 10, m - ((7 * m + 5) \div 10)>>

\* split(..., randomize=True): the orders split may shuffle the batches into,
\* the same for both partitions and for every pass
BatchOrders(m) ==
    {f \in [1 .. m -> 1 .. m] : \A i, j \in 1 .. m : f[i] = f[j] => i = j}

\* one pass of a partition's pipeline: the examples in the order drawn for
\* this pass, batched, the batches in the order of the split, `skip` of them
\* skipped and `take` taken
PartitionPass(order, perm, skip, take) ==
    LET b == Batched(order)
    IN  [j \in 1 .. take |-> b[perm[skip + j]]]

DataInit ==
    /\ LoopIdle
    /\ PrepIdle
    /\ rowsN \in 0 .. (2 * batch_size + MaxRest)
    /\ dataState = "batched"
    /\ splitSizes = <<0, 0>>
    /\ batchOrder = <<>>
    /\ trainPass = <<>>
    /\ validPass = <<>>
    /\ NetIdle

\* imdb_train.split([0.7, 0.3]) with both partitions non-empty
Split ==
    /\ dataState = "batched"
    /\ SplitSizes(NumBatches(rowsN))[1] > 0
    /\ SplitSizes(NumBatches(rowsN))[2] > 0
    /\ splitSizes' = SplitSizes(NumBatches(rowsN))
    /\ batchOrder' \in BatchOrders(NumBatches(rowsN))
    /\ dataState' = "split"
    /\ UNCHANGED <<rowsN, trainPass, validPass>>
    /\ UNCHANGED <<loopVars, prepVars, netVars>>

\* imdb_train.split([0.7, 0.3]) raises: a partition would be empty
SplitFail ==
    /\ dataState = "batched"
    /\ \/ SplitSizes(NumBatches(rowsN))[1] = 0
       \/ SplitSizes(NumBatches(rowsN))[2] = 0
    /\ dataState' = "failed"
    /\ UNCHANGED <<rowsN, splitSizes, batchOrder, trainPass, validPass>>
    /\ UNCHANGED <<loopVars, prepVars, netVars>>

\* imdb_train.create_tuple_iterator() is run through (train_one_epoch)
IterTrain ==
    /\ dataState = "split"
    /\ \E order \in RowOrders(rowsN) :
          trainPass' = PartitionPass(order, batchOrder, 0, splitSizes[1])
    /\ UNCHANGED <<rowsN, dataState, splitSizes, batchOrder, validPass>>
    /\ UNCHANGED <<loopVars, prepVars, netVars>>

\* imdb_valid.create_tuple_iterator() is run through (evaluate)
IterValid ==
    /\ dataState = "split"
    /\ \E order \in RowOrders(rowsN) :
          validPass' = PartitionPass(order, batchOrder, splitSizes[1], splitSizes[2])
    /\ UNCHANGED <<rowsN, dataState, splitSizes, batchOrder, trainPass>>
    /\ UNCHANGED <<loopVars, prepVars, netVars>>

DataNext ==
    \/ Split
    \/ SplitFail
    \/ IterTrain
    \/ IterValid

DataSpec == DataInit /\ [][DataNext]_vars

(***************************************************************************)
(* The network (cell 9): RNN.__init__ and RNN.construct, on the shapes of  *)
(* the tensors and on which hidden states go where.                        *)
(***************************************************************************)
\* embedding._embed_dim of Glove.from_pretrained('6B', 100, ...)
embedding_dim == 100

\* the number of directions of the encoder
Directions(bi) == IF bi THEN <<"forward", "backward">> ELSE <<"forward">>

\* StaticLSTM(...)(embedded): the final hidden states, one per layer and
\* direction, layer by layer, each of shape (batch, hidden_dim)
StaticLSTMHidden(layers, bi, hdim, batch) ==
    [k \in 1 .. layers * Len(Directions(bi)) |->
        [layer |-> ((k - 1) \div Len(Directions(bi))) + 1,
         direction |-> Directions(bi)[((k - 1) % Len(Directions(bi))) + 1],
         shape |-> <<batch, hdim>>]]

\* nn.Dense(hidden_dim * 2, output_dim): the input width of self.fc
DenseIn(hdim) == hdim * 2

\* (mutation) the first two states instead of the last two
HiddenPicksFirst == <<0, 1>>

\* hidden[-2, :, :] and hidden[-1, :, :]
HiddenPicks == <<-2, -1>>

\* the position (from 1) that index k selects of n entries, 0 when k is out
\* of range
Position(k, n) ==
    IF k >= 0 THEN (IF k < n THEN k + 1 ELSE 0)
    ELSE (IF n + k >= 0 THEN n + k + 1 ELSE 0)

NetInit ==
    /\ LoopIdle
    /\ PrepIdle
    /\ DataIdle
    /\ n_layers \in 1 .. MaxLayers
    /\ bidirectional \in BOOLEAN
    /\ hidden_dim \in 1 .. MaxDim
    /\ output_dim \in 1 .. MaxDim
    /\ inputs \in {<<b, max_length>> : b \in 1 .. MaxDim}
    /\ netPc = "called"
    /\ embedded = <<>>
    /\ hidden = <<>>
    /\ head = <<>>
    /\ headShape = <<>>
    /\ output = <<>>

netArgs == <<n_layers, bidirectional, hidden_dim, output_dim, inputs>>

\* embedded = self.embedding(inputs)
Embed ==
    /\ netPc = "called"
    /\ embedded' = <<inputs[1], inputs[2], embedding_dim>>
    /\ netPc' = "embedded"
    /\ UNCHANGED <<netArgs, hidden, head, headShape, output>>
    /\ UNCHANGED <<loopVars, prepVars, dataVars>>

\* _, (hidden, _) = self.rnn(embedded)
Encode ==
    /\ netPc = "embedded"
    /\ hidden' = StaticLSTMHidden(n_layers, bidirectional, hidden_dim, embedded[1])
    /\ netPc' = "encoded"
    /\ UNCHANGED <<netArgs, embedded, head, headShape, output>>
    /\ UNCHANGED <<loopVars, prepVars, dataVars>>

\* hidden = ops.concat((hidden[-2, :, :], hidden[-1, :, :]), axis=1)
Concat ==
    /\ netPc = "encoded"
    /\ \A i \in 1 .. 2 : Position(HiddenPicks[i], Len(hidden)) # 0
    /\ head' = [i \in 1 .. 2 |->
                   [layer |-> hidden[Position(HiddenPicks[i], Len(hidden))].layer,
                    direction |->
                        hidden[Position(HiddenPicks[i], Len(hidden))].direction]]
    /\ headShape' = <<hidden[1].shape[1], 2 * hidden[1].shape[2]>>
    /\ netPc' = "concatenated"
    /\ UNCHANGED <<netArgs, embedded, hidden, output>>
    /\ UNCHANGED <<loopVars, prepVars, dataVars>>

\* an index of the concatenation is out of range: construct raises
ConcatFail ==
    /\ netPc = "encoded"
    /\ \E i \in 1 .. 2 : Position(HiddenPicks[i], Len(hidden)) = 0
    /\ netPc' = "failed"
    /\ UNCHANGED <<netArgs, embedded, hidden, head, headShape, output>>
    /\ UNCHANGED <<loopVars, prepVars, dataVars>>

\* output = self.fc(hidden); return output
Classify ==
    /\ netPc = "concatenated"
    /\ IF headShape[2] = DenseIn(hidden_dim)
       THEN /\ output' = <<headShape[1], output_dim>>
            /\ netPc' = "returned"
       ELSE /\ output' = output
            /\ netPc' = "failed"
    /\ UNCHANGED <<netArgs, embedded, hidden, head, headShape>>
    /\ UNCHANGED <<loopVars, prepVars, dataVars>>

NetNext ==
    \/ Embed
    \/ Encode
    \/ Concat
    \/ ConcatFail
    \/ Classify

NetSpec == NetInit /\ [][NetNext]_vars

(***************************************************************************)
(* evaluate called on its own, twice: on a model in either mode, and with   *)
(* the mode set anew by whatever runs between the two calls.               *)
(***************************************************************************)
EvalInit ==
    /\ Fresh
    /\ pc = "call_eval"
    /\ paramsHist = <<params>>
    /\ PrepIdle
    /\ RestIdle

\* the first call has returned; the mode is set by the code in between and
\* evaluate is called a second time
CallAgain ==
    /\ pc = "decide"
    /\ Len(lossHist) < 2
    /\ training' \in BOOLEAN
    /\ paramsHist' = Append(paramsHist, params)
    /\ pc' = "call_eval"
    /\ UNCHANGED <<bestBefore, epoch, params, optSteps, best_valid_loss,
                   valid_loss, ckpt, nTrain, nValid, it, loss, grads, loss_total,
                   acc_total, step_total, lossHist, writes, nGrads, fed, failedIn>>
    /\ UNCHANGED <<prepVars, restVars>>

EvalNext ==
    \/ EvaluateBegin
    \/ EvalStep
    \/ EvalFail
    \/ EvalReturn
    \/ EvalDivideByZero
    \/ CallAgain

EvalSpec == EvalInit /\ [][EvalNext]_vars

(***************************************************************************)
(* Properties.                                                             *)
(***************************************************************************)
Range(q) == {q[i] : i \in 1 .. Len(q)}

\* the epochs (0-based) whose if-statement has been executed to its end
FinishedEpochs == 0 .. (epoch - 1)

\* C1: save_checkpoint is called in epoch e if and only if the validation
\* loss of epoch e is strictly less than best_valid_loss as it stood before
\* epoch e; every call lies in an epoch with a strictly smaller loss, and an
\* epoch sees at most one call.
WriteIffImproved ==
    /\ \A e \in FinishedEpochs :
          (e \in Range(writes)) <=> FLess(lossHist[e + 1], bestBefore[e + 1])
    /\ \A i \in 1 .. Len(writes) :
          /\ writes[i] + 1 <= Len(lossHist)
          /\ FLess(lossHist[writes[i] + 1], bestBefore[writes[i] + 1])
          /\ \A j \in 1 .. Len(writes) : writes[j] = writes[i] => j = i
    /\ Len(bestBefore) > 0 => bestBefore[1] = Inf

\* an epoch wrote, and a later epoch with a loss equal to the best did not
WriteIffImprovedWitness ==
    \E e1, e2 \in FinishedEpochs :
        /\ e1 < e2
        /\ e1 \in Range(writes)
        /\ e2 \notin Range(writes)
        /\ lossHist[e2 + 1] = bestBefore[e2 + 1]
        /\ lossHist[e2 + 1].kind = "fin"

\* the number of epochs whose loss has been compared with best_valid_loss
\* and, when smaller, assigned to it
Decided == IF pc = "save" \/ failedIn = "save" THEN epoch + 1 ELSE epoch

\* the loss is a number below +infinity (neither NaN nor +infinity)
Comparable(x) == FLess(x, Inf)

\* i is the earliest among the first n epochs whose loss no epoch undercuts
EarliestMin(i, n) ==
    /\ i \in 1 .. n
    /\ \A j \in 1 .. n : ~FLess(lossHist[j], lossHist[i])
    /\ \A j \in 1 .. (i - 1) : lossHist[j] # lossHist[i]

\* C2 as stated: when the loop has completed, the checkpoint file holds the
\* parameters as they were right after the training of the earliest epoch of
\* minimal validation loss, and best_valid_loss is that minimum.
CheckpointIsBestEpoch ==
    pc = "done" =>
        \E i \in 1 .. num_epochs :
            /\ EarliestMin(i, num_epochs)
            /\ ckpt = Saved(paramsHist[i])
            /\ best_valid_loss = lossHist[i]

\* C2 amended, at every point: best_valid_loss is the least comparable loss of
\* the epochs decided so far (+infinity when there is none); once the loop has
\* completed, the file holds the parameters of the earliest epoch with that
\* loss, and there is no file when no epoch had a comparable loss.
BestSoFar ==
    /\ Decided <= Len(lossHist)
    /\ IF \E i \in 1 .. Decided : Comparable(lossHist[i])
       THEN \E i \in 1 .. Decided :
               /\ Comparable(lossHist[i])
               /\ EarliestMin(i, Decided)
               /\ best_valid_loss = lossHist[i]
               /\ pc = "done" => ckpt = Saved(paramsHist[i])
       ELSE /\ best_valid_loss = Inf
            /\ pc = "done" => ckpt = NoFile
    /\ pc = "done" => Decided = num_epochs /\ Len(paramsHist) = num_epochs

\* C2 amended: BestSoFar holds always and best_valid_loss never increases.
CheckpointIsBestComparable ==
    /\ []BestSoFar
    /\ [][~FLess(best_valid_loss, best_valid_loss')]_vars

\* the loop completed; the minimum was reached twice, with different
\* parameters, and an epoch in between had a NaN loss
CheckpointIsBestWitness ==
    /\ pc = "done"
    /\ \E i, j, k \in 1 .. num_epochs :
          /\ i < k /\ k < j
          /\ EarliestMin(i, num_epochs)
          /\ lossHist[j] = lossHist[i]
          /\ paramsHist[j] # paramsHist[i]
          /\ lossHist[k] = NaN
          /\ lossHist[i].kind = "fin"
          /\ ckpt = Saved(paramsHist[i])

\* the losses of the first n validation batches at parameters p, in inference
\* mode, added up
RECURSIVE SumOfLosses(_, _)
SumOfLosses(p, n) ==
    IF n = 0 THEN Zero
    ELSE FAdd(SumOfLosses(p, n - 1), BatchLoss(p, ValidBatch(n), 0))

\* C3: for a non-empty validation set, the value evaluate returns in an epoch
\* is the sum of the per-batch losses divided by the number of batches
\* iterated, and when it returns the step count equals the divisor.
EvaluateReturnsMean ==
    /\ \A e \in 1 .. Len(lossHist) :
          /\ nValid > 0
          /\ lossHist[e] = FDiv(SumOfLosses(paramsHist[e], nValid), nValid)
    /\ pc = "decide" => valid_loss = lossHist[Len(lossHist)]
    /\ (pc = "eval" /\ ~(it < nValid)) => step_total = nValid

\* evaluate has returned the mean of two batch losses, which is no integer
EvaluateReturnsMeanWitness ==
    /\ pc = "decide"
    /\ nValid = 2
    /\ valid_loss.kind = "fin"
    /\ valid_loss.den = 2

\* C4: no step of evaluate, from its call to its return or failure, changes
\* the parameters, the optimizer state, best_valid_loss or the checkpoint
\* file; when it has returned the parameters are those it was called with.
EvaluateChangesNothing ==
    /\ [][(pc \in {"call_eval", "eval"}) =>
            /\ params' = params
            /\ optSteps' = optSteps
            /\ best_valid_loss' = best_valid_loss
            /\ ckpt' = ckpt]_vars
    /\ [](pc = "decide" => params = paramsHist[Len(paramsHist)])

\* evaluate has returned after two batches, in a run that has applied
\* optimizer updates and written a checkpoint before
EvaluateChangesNothingWitness ==
    /\ pc = "decide"
    /\ nValid = 2
    /\ optSteps > 0
    /\ ckpt.state = "ok"
    /\ Comparable(best_valid_loss)

InTraining == pc \in {"train", "opt"}

\* C6: train_one_epoch performs one gradient computation per batch, each
\* followed at once by one optimizer update, in batch order: when it has
\* returned, the batches fed are exactly the batches of the dataset in order
\* and the call has applied nTrain updates.
OneStepPerBatch ==
    /\ [](InTraining =>
            /\ fed = [i \in 1 .. nGrads |-> TrainBatch(i)]
            /\ step_total = it
            /\ optSteps = Len(paramsHist) * nTrain + it
            /\ nGrads = IF pc = "opt" THEN it + 1 ELSE it
            /\ it <= nTrain)
    /\ [](pc = "call_eval" =>
            /\ fed = [i \in 1 .. nTrain |-> TrainBatch(i)]
            /\ nGrads = nTrain
            /\ optSteps = Len(paramsHist) * nTrain)
    /\ [][/\ nGrads' = nGrads + 1 => pc' = "opt"
          /\ pc = "opt" => (optSteps' = optSteps + 1 \/ pc' = "failed")
          /\ optSteps' # optSteps => (pc = "opt" /\ optSteps' = optSteps + 1)]_vars

\* train_one_epoch has returned in a later epoch after two optimization
\* steps that changed the parameters
OneStepPerBatchWitness ==
    /\ pc = "call_eval"
    /\ epoch = 1
    /\ nTrain = 2
    /\ optSteps = 4
    /\ paramsHist[1] # paramsHist[2]

\* the activities an activity may hand over to
Follows ==
    [for |-> {"train", "done"},
     train |-> {"opt", "call_eval", "failed"},
     opt |-> {"train", "failed"},
     call_eval |-> {"eval"},
     eval |-> {"decide", "failed"},
     decide |-> {"save", "for"},
     save |-> {"for", "failed"},
     done |-> {},
     failed |-> {}]

\* what is left to do, in steps: every step of the script lowers it
StepsLeft ==
    LET perEpoch == 2 * nTrain + nValid + 6
        inEpoch ==
            CASE pc = "for" -> perEpoch
              [] pc = "train" -> 2 * (nTrain - it) + nValid + 5
              [] pc = "opt" -> 2 * (nTrain - it) + nValid + 4
              [] pc = "call_eval" -> nValid + 4
              [] pc = "eval" -> (nValid - it) + 3
              [] pc = "decide" -> 2
              [] pc = "save" -> 1
              [] OTHER -> 0
    IN  IF pc \in {"done", "failed"} THEN 0
        ELSE (num_epochs - epoch) * perEpoch + inEpoch

\* C7: the loop ends, and without a failure it ends after exactly num_epochs
\* epochs; in every epoch all training steps precede the evaluation, the
\* evaluation precedes the checkpoint decision, and the next epoch begins
\* only when the decision (and the write it asks for) is over.
EpochsInOrder ==
    /\ [](/\ StepsLeft \in Nat
          /\ pc \notin {"done", "failed"} => ENABLED Next
          /\ pc = "done" =>
                /\ epoch = num_epochs
                /\ Len(paramsHist) = num_epochs
                /\ Len(lossHist) = num_epochs
                /\ Len(bestBefore) = num_epochs
          /\ InTraining =>
                /\ Len(bestBefore) = epoch + 1
                /\ Len(paramsHist) = epoch
                /\ Len(lossHist) = epoch
                /\ Decided = epoch
          /\ pc \in {"call_eval", "eval"} =>
                /\ Len(paramsHist) = epoch + 1
                /\ Len(lossHist) = epoch
                /\ nGrads = nTrain
                /\ Decided = epoch
          /\ pc \in {"decide", "save"} =>
                /\ Len(paramsHist) = epoch + 1
                /\ Len(lossHist) = epoch + 1
          /\ pc = "for" =>
                /\ Len(paramsHist) = epoch
                /\ Len(lossHist) = epoch
                /\ Decided = epoch)
    /\ [][/\ StepsLeft' < StepsLeft
          /\ pc' # pc => pc' \in Follows[pc]]_vars

\* the loop has completed five epochs of two training and two evaluation
\* batches each, the last of which wrote the checkpoint
EpochsInOrderWitness ==
    /\ pc = "done"
    /\ nTrain = 2
    /\ nValid = 2
    /\ optSteps = 2 * num_epochs
    /\ Len(writes) > 1
    /\ writes[Len(writes)] = num_epochs - 1

\* the checkpoint file as the successful writes so far have left it
LastGoodCheckpoint ==
    IF writes = <<>> THEN NoFile ELSE Saved(paramsHist[writes[Len(writes)] + 1])

\* C8: a failure in a training step, an evaluation step or the checkpoint
\* write ends the script: no step follows it (no batch, no epoch, no retry,
\* no write), and a failure during training or evaluation leaves the file as
\* the last successful write left it.
FailureEndsTheRun ==
    /\ [](/\ (failedIn # "") <=> (pc = "failed")
          /\ (pc = "failed" /\ failedIn # "save") => ckpt = LastGoodCheckpoint)
    /\ [][/\ pc # "failed"
          /\ (pc' = "failed" /\ failedIn' # "save") => ckpt' = ckpt
          /\ (failedIn' # failedIn) => pc' = "failed"]_vars

\* an evaluation step failed in a later epoch, after a checkpoint was written
FailureEndsTheRunWitness ==
    /\ pc = "failed"
    /\ failedIn = "evaluate"
    /\ epoch > 1
    /\ ckpt.state = "ok"
    /\ Len(paramsHist) > Len(lossHist)

\* map has applied all its operations to the document
Mapped == pc = "prep" /\ stage = Len(MapOps(part))

\* the id the pipeline gives the i-th word of the document
IdOfWord(i) ==
    LET t == Lower(doc[i])
    IN  IF t \in DOMAIN VocabTable THEN VocabTable[t] ELSE VocabTable["<unk>"]

\* C9: a document of fewer than max_length tokens is mapped to exactly
\* max_length ids: first its own ids, unchanged and in order, then the id the
\* vocabulary gives '<pad>' in every remaining position.
PaddedToMaxLength ==
    (Mapped /\ Len(doc) < max_length) =>
        /\ Len(text) = max_length
        /\ \A i \in 1 .. Len(doc) : text[i] = IdOfWord(i)
        /\ \A i \in (Len(doc) + 1) .. max_length : text[i] = VocabTable["<pad>"]

\* a mapped document one token short of max_length, with an unknown word
PaddedToMaxLengthWitness ==
    /\ Mapped
    /\ Len(doc) = max_length - 1
    /\ text[max_length] = VocabTable["<pad>"]
    /\ \E i \in 1 .. Len(doc) : text[i] = VocabTable["<unk>"]

\* C10: in every partition a mapped document is a sequence of exactly
\* max_length ids, whatever its token count; a longer document is cut to its
\* first max_length ids.
AllSequencesMaxLength ==
    Mapped =>
        /\ Len(text) = max_length
        /\ Len(doc) >= max_length =>
              \A i \in 1 .. max_length : text[i] = IdOfWord(i)

\* a mapped document of the test partition that was longer than max_length
AllSequencesMaxLengthWitness ==
    /\ Mapped
    /\ part = "test"
    /\ Len(doc) > max_length
    /\ Len(text) = max_length

\* the batches the loops have consumed in the latest passes
Consumed == Range(trainPass) \cup Range(validPass)

\* C11 as stated: every batch consumed by the training and evaluation loops
\* holds exactly batch_size sequences and batch_size labels.
BatchesAreFull ==
    \A b \in Consumed : Len(b.data) = batch_size /\ Len(b.label) = batch_size

\* the number of batches holding fewer than batch_size examples
Short(pass) == Cardinality({j \in 1 .. Len(pass) : Len(pass[j].data) < batch_size})

\* C11 amended: every batch holds as many labels as sequences, those of its
\* examples, and holds batch_size examples, except one batch per pass over
\* the set, which holds the rowsN mod batch_size examples that are left when
\* rowsN is no multiple of batch_size; the set of rowsN examples makes
\* ceil(rowsN / batch_size) batches, split 0.7 : 0.3.
BatchesFullButLast ==
    /\ \A b \in Consumed :
          /\ Len(b.label) = Len(b.data)
          /\ \A i \in 1 .. Len(b.data) : b.label[i] = LabelOf(b.data[i])
          /\ \/ Len(b.data) = batch_size
             \/ /\ rowsN % batch_size # 0
                /\ Len(b.data) = rowsN % batch_size
    /\ Short(trainPass) <= 1
    /\ Short(validPass) <= 1
    /\ dataState = "split" =>
          /\ (splitSizes[1] + splitSizes[2]) * batch_size >= rowsN
          /\ (splitSizes[1] + splitSizes[2] - 1) * batch_size < rowsN
    /\ trainPass # <<>> => Len(trainPass) = splitSizes[1]
    /\ validPass # <<>> => Len(validPass) = splitSizes[2]

\* the training loop has consumed a short batch, of a set whose number of
\* examples is no multiple of batch_size, and the evaluation loop full ones
BatchesFullButLastWitness ==
    /\ rowsN % batch_size # 0
    /\ Short(trainPass) = 1
    /\ Len(trainPass) = 2
    /\ Len(validPass) = 1
    /\ Short(validPass) = 0

\* C12: for every batch and every n_layers >= 1 and bidirectional flag the
\* constructor accepts, construct returns logits of shape (number of
\* sequences of the batch x output_dim).
LogitsShape ==
    /\ netPc # "failed"
    /\ netPc = "returned" => output = <<inputs[1], output_dim>>

\* C13: with bidirectional true and any n_layers >= 1, the vector given to
\* the classifier is the final layer's forward state followed by its backward
\* state, of width hidden_dim * 2, the input width of the Dense layer; with
\* bidirectional false and n_layers >= 2 it is the forward states of the last
\* two layers.
HeadIsFinalLayer ==
    netPc \in {"concatenated", "returned"} =>
        /\ headShape = <<inputs[1], hidden_dim * 2>>
        /\ headShape[2] = DenseIn(hidden_dim)
        /\ bidirectional =>
              /\ head[1] = [layer |-> n_layers, direction |-> "forward"]
              /\ head[2] = [layer |-> n_layers, direction |-> "backward"]
        /\ ~bidirectional =>
              /\ n_layers >= 2
              /\ head[1] = [layer |-> n_layers - 1, direction |-> "forward"]
              /\ head[2] = [layer |-> n_layers, direction |-> "forward"]

\* construct has returned for a bidirectional encoder of three layers
HeadIsFinalLayerWitness ==
    /\ netPc = "returned"
    /\ bidirectional
    /\ n_layers = 3
    /\ Len(hidden) = 6
    /\ head[1].layer = 3

\* C14: in every epoch the model is in training mode at every training step
\* and in inference mode at every evaluation step and at the checkpoint
\* write: train_one_epoch switches training mode on before its first step,
\* whatever the mode was, evaluate switches it off before its first forward
\* pass, and nothing switches it between the evaluation and the write.
ModeFollowsPhase ==
    /\ [](InTraining => training)
    /\ [](pc \in {"eval", "decide", "save"} => ~training)
    /\ [][(pc = "for" /\ pc' = "train") => training']_vars
    /\ [][(pc = "call_eval" /\ pc' = "eval") => ~training']_vars
    /\ [][writes' # writes => (~training /\ ~training')]_vars

\* an optimizer step of a later epoch is due with the model back in training
\* mode, an earlier epoch's evaluation having switched it off and its
\* checkpoint written
ModeFollowsPhaseWitness ==
    /\ epoch >= 1
    /\ pc = "opt"
    /\ training
    /\ writes # <<>>

\* best_valid_loss as epoch e (0-based, finished) left it
BestAfter(e) ==
    IF e + 2 <= Len(bestBefore) THEN bestBefore[e + 2] ELSE best_valid_loss

\* the validation loss is NaN or +infinity
NotSmaller(x) == x.kind \in {"nan", "inf"}

\* C15: best_valid_loss starts at +infinity, so the first epoch writes a
\* checkpoint whenever its validation loss is finite, and a completed run of
\* num_epochs >= 1 epochs with finite losses leaves a checkpoint file; an
\* epoch whose validation loss is NaN or +infinity writes nothing and leaves
\* best_valid_loss as it was.
FirstFiniteLossWrites ==
    /\ bestBefore # <<>> => bestBefore[1] = Inf
    /\ (0 \in FinishedEpochs /\ lossHist[1].kind = "fin") =>
          /\ 0 \in Range(writes)
          /\ BestAfter(0) = lossHist[1]
    /\ (pc = "done" /\ \A i \in 1 .. Len(lossHist) : lossHist[i].kind = "fin") =>
          /\ num_epochs >= 1
          /\ Len(lossHist) = num_epochs
          /\ ckpt.state = "ok"
          /\ writes # <<>>
    /\ \A e \in FinishedEpochs :
          NotSmaller(lossHist[e + 1]) =>
              /\ e \notin Range(writes)
              /\ BestAfter(e) = bestBefore[e + 1]

\* a completed run whose first epoch had a finite loss and wrote the file,
\* with a later epoch of loss NaN and one of loss +infinity
FirstFiniteLossWritesWitness ==
    /\ pc = "done"
    /\ lossHist[1].kind = "fin"
    /\ 0 \in Range(writes)
    /\ ckpt.state = "ok"
    /\ \E i \in 2 .. Len(lossHist) : lossHist[i].kind = "nan"
    /\ \E i \in 2 .. Len(lossHist) : lossHist[i].kind = "inf"

\* C16: evaluate on a dataset of zero batches returns no loss: the division
\* epoch_loss / total fails, the run ends there, and best_valid_loss and the
\* checkpoint are never touched; train_one_epoch on a dataset of zero batches
\* returns without an error, a gradient or a parameter update.
ZeroBatches ==
    /\ [](nValid = 0 =>
            /\ lossHist = <<>>
            /\ best_valid_loss = Inf
            /\ ckpt = NoFile
            /\ writes = <<>>
            /\ epoch = 0
            /\ pc \notin {"decide", "save", "done"})
    /\ [][(pc = "eval" /\ nValid = 0) =>
            (pc' = "failed" /\ failedIn' = "divide")]_vars
    /\ [](failedIn = "divide" => (pc = "failed" /\ nValid = 0))
    /\ [](nTrain = 0 =>
            /\ optSteps = 0
            /\ nGrads = 0
            /\ fed = <<>>
            /\ failedIn # "train"
            /\ \A i \in 1 .. Len(paramsHist) : paramsHist[i] = params)
    /\ [][(pc = "train" /\ nTrain = 0) =>
            (pc' = "call_eval" /\ params' = params)]_vars

\* the run has ended in the division of evaluate, train_one_epoch having
\* returned before it from a dataset of zero batches
ZeroBatchesWitness ==
    /\ pc = "failed"
    /\ failedIn = "divide"
    /\ nTrain = 0
    /\ nValid = 0
    /\ training = FALSE
    /\ optSteps = 0

\* the examples of the batches of one pass
Examples(pass) == UNION {Range(pass[j].data) : j \in 1 .. Len(pass)}

\* C17 as stated, for the partitions: the examples the training loop takes
\* from the train partition and those the evaluation loop takes from the
\* validation partition are disjoint, and together they are exactly the
\* examples of the original training set.
PartitionsKeepRoles ==
    (trainPass # <<>> /\ validPass # <<>>) =>
        /\ Examples(trainPass) \cap Examples(validPass) = {}
        /\ Examples(trainPass) \cup Examples(validPass) = 1 .. rowsN

====
